---- MODULE Spec2Model ----
(***************************************************************************)
(* Model of worktree-tools' two config utilities:                          *)
(*   scripts/normalize_config.py  (ConfigNormalizer + main)                *)
(*   scripts/validate_config.py   (ConfigValidator  + main)                *)
(*                                                                         *)
(* A document is the list str.split('\n') produces: a sequence of lines.   *)
(* A line is a record [kind, name, key, value]; every string test the code *)
(* performs (startswith, substring, regular expression) is an operator on  *)
(* that record.  The text of a line is                                     *)
(*   blank     ''                                                          *)
(*   comment   '# ' value            (no marker substring)                 *)
(*   delim     '# ====...===='                                             *)
(*   header    '# Optional: IDE configuration ...'      name = "IDE"       *)
(*             '# Optional: CI commands ...'             name = "CI"        *)
(*             '# Optional: Modular builds ...'          name = "MOD"       *)
(*   excomment '# Android example:' / '# iOS example:' / '# Web example:'  *)
(*             (name = "CI"),  '# Android modules:' / '# iOS modules:' /   *)
(*             '# Web packages:' (name = "MOD"); key = the platform        *)
(*   example   '# ' name '[' key ']="' value '"'                           *)
(*   guard     '[[ -z ${(t)' name '} ]] && declare -gA ' name              *)
(*   cguard    '# [[ -z ${(t)' name '} ]] && declare -gA ' name            *)
(*   scalar    name '=' value                                              *)
(*   assign    name '[' key ']="' value '"'                                *)
(*   other     value                 (e.g. '#', BARE_REPOS_PATH=...)       *)
(***************************************************************************)
EXTENDS Integers, Sequences, FiniteSets, TLC

VARIABLES
    tool,          \* which script this process runs
    argv,          \* sys.argv[1:]
    fs,            \* file system: path -> document, <<>> when the path does not exist
    backups,       \* contents of the backup files written so far (one file per timestamp)
    pc,            \* position of the process in main()
    run,           \* number of the current invocation on this file system
    prev_result,   \* what the previous invocation computed (<<>> if nothing)
    exitCode,      \* -1 while the process runs
    user_config,   \* normalize: text read from the config;  validate: original_config
    user_values,   \* ConfigNormalizer.user_values
    lines,         \* the list the current loop walks
    i,             \* the loop cursor (0-based, as in the code)
    result,        \* the output buffer of the current loop
    needs_declaration, declared,   \* ConfigValidator._fix_missing_declarations
    issues, fixes, \* ConfigValidator.issues / .fixes
    fixed,         \* the flag the current validator pass returns
    had_issues     \* validate_and_fix's had_issues

vars == <<tool, argv, fs, backups, pc, run, prev_result, exitCode, user_config, user_values,
          lines, i, result, needs_declaration, declared, issues, fixes, fixed,
          had_issues>>

-----------------------------------------------------------------------------
(* Bounds                                                                  *)

MaxUserLen == 2      \* lines of a config document handed to normalize
MaxValLen  == 3      \* lines of a config document handed to validate
MaxRuns    == 2      \* invocations of the tool on the same file system
MaxFairLen == 1      \* lines of a document in the runs checked for termination
MaxAliasLen == 3     \* lines of a user document of colliding alias entries
MaxOrderLen == 2     \* entries of one table in a user document of ordered entries

-----------------------------------------------------------------------------
(* Lines                                                                   *)

Line(k, n, ky, v) == [kind |-> k, name |-> n, key |-> ky, value |-> v]

Blank            == Line("blank", "", "", "")
Comment(t)       == Line("comment", "", "", t)
Delim            == Line("delim", "", "", "")
Header(s)        == Line("header", s, "", "")
ExComment(s, p)  == Line("excomment", s, p, "")
Example(t, ky, v) == Line("example", t, ky, v)
Guard(t)         == Line("guard", t, "", "")
CGuard(t)        == Line("cguard", t, "", "")
Scalar(n, v)     == Line("scalar", n, "", v)
Assign(t, ky, v) == Line("assign", t, ky, v)
Other(t)         == Line("other", "", "", t)

\* a value whose text contains the substring '[[ -z ${(t)REPO_MAPPINGS}'
GuardMarker == "[[ -z ${(t)REPO_MAPPINGS} ]]"

\* lines[i] for a 0-based index
At(s, n) == s[n + 1]

Min(S) == CHOOSE x \in S : \A y \in S : x <= y

Max(S) == CHOOSE x \in S : \A y \in S : x >= y

\* all sequences over S of length 0..n
BoundedSeq(S, n) == UNION {[1..m -> S] : m \in 0..n}

-----------------------------------------------------------------------------
(* String tests of normalize_config.py                                     *)

\* line.startswith(f'{var}=')  and  re.search(rf'^{var}=(.*)$', ...)
MatchesSimple(l, var) == l.kind = "scalar" /\ l.name = var

\* re: ^TABLE\[([^\]]+)\]="([^"]*)"
MatchesAssign(l, table) == l.kind = "assign" /\ l.name = table /\ l.key # ""

\* '[[ -z ${(t)REPO_MAPPINGS}' in line
ContainsMappingsGuard(l) ==
    \/ l.kind \in {"guard", "cguard"} /\ l.name = "REPO_MAPPINGS"
    \/ l.value = GuardMarker

\* '===' in line
ContainsDelimToken(l) == l.kind = "delim"

\* line.startswith('# ===')
StartsWithDelim(l) == l.kind = "delim"

\* line.startswith('# Optional: IDE configuration') and the two others
StartsWithHeader(l, section) == l.kind = "header" /\ l.name = section

\* line.startswith('# REPO_IDE_CONFIGS[') and the two others
StartsWithExample(l, table) == l.kind = "example" /\ l.name = table

\* line.startswith('# Android example:') etc.
StartsWithPlatform(l, section, platform) ==
    l.kind = "excomment" /\ l.name = section /\ l.key = platform

\* line.strip() == ''
IsBlank(l) == l.kind = "blank"

-----------------------------------------------------------------------------
(* ConfigNormalizer._extract_user_values                                   *)

SimpleVars == <<"GIT_USERNAME", "BRANCH_PREFIX", "BASE_DEV_PATH", "CONFIG_VERSION">>

\* values['simple']: (var, value) items in insertion order; re.search keeps
\* the first matching line of the document
ExtractSimple(config) ==
    LET hit(var)   == {n \in 1..Len(config) : MatchesSimple(config[n], var)}
        found      == SelectSeq(SimpleVars, LAMBDA var : hit(var) # {})
    IN  [n \in 1..Len(found) |-> <<found[n], config[Min(hit(found[n]))].value>>]

\* re.findall(pattern, config, re.MULTILINE): (key, value) in document order
FindAll(config, table) ==
    LET hits == SelectSeq(config, LAMBDA l : MatchesAssign(l, table))
    IN  [n \in 1..Len(hits) |-> <<hits[n].key, hits[n].value>>]

\* a reverse map that keeps the first shorthand assigned to a full name
FullToShortFirstWins(mappings) ==
    LET full_names == {mappings[n][2] : n \in 1..Len(mappings)}
    IN  [f \in full_names |->
            mappings[Min({n \in 1..Len(mappings) : mappings[n][2] = f})][1]]

\* the tuple unpacked the wrong way round: full_to_short[shorthand] = full_name
FullToShortSwapped(mappings) ==
    LET shorts == {mappings[n][1] : n \in 1..Len(mappings)}
    IN  [k \in shorts |->
            mappings[Max({n \in 1..Len(mappings) : mappings[n][1] = k})][2]]

\* full_to_short[full_name] = shorthand, assigned in order: the last wins
FullToShort(mappings) ==
    LET full_names == {mappings[n][2] : n \in 1..Len(mappings)}
    IN  [f \in full_names |->
            mappings[Max({n \in 1..Len(mappings) : mappings[n][2] = f})][1]]

\* dict.get(key, default)
DictGet(d, k, default) == IF k \in DOMAIN d THEN d[k] ELSE default

\* the raw key appended instead of final_key
ResolveKeysRaw(raw, full_to_short) ==
    [n \in 1..Len(raw) |-> <<raw[n][1], raw[n][2]>>]

\* final_key = full_to_short.get(key, key) for every raw entry
ResolveKeys(raw, full_to_short) ==
    [n \in 1..Len(raw) |->
        <<DictGet(full_to_short, raw[n][1], raw[n][1]), raw[n][2]>>]

ExtractUserValues(config) ==
    LET mappings      == FindAll(config, "REPO_MAPPINGS")
        full_to_short == FullToShort(mappings)
    IN  [simple       |-> ExtractSimple(config),
         mappings     |-> mappings,
         ide_configs  |-> ResolveKeys(FindAll(config, "REPO_IDE_CONFIGS"), full_to_short),
         repo_configs |-> ResolveKeys(FindAll(config, "REPO_CONFIGS"), full_to_short),
         repo_modules |-> ResolveKeys(FindAll(config, "REPO_MODULES"), full_to_short)]

NoValues == [simple |-> <<>>, mappings |-> <<>>, ide_configs |-> <<>>,
             repo_configs |-> <<>>, repo_modules |-> <<>>]

-----------------------------------------------------------------------------
(* ConfigNormalizer.normalize: one iteration of the driver loop            *)

\* for var, value in simple.items(): if line.startswith(var=): replace; break
SubstituteSimple(line, simple) ==
    LET hit == {n \in 1..Len(simple) : MatchesSimple(line, simple[n][1])}
    IN  IF hit = {} THEN line
        ELSE Scalar(simple[Min(hit)][1], simple[Min(hit)][2])

\* the entries emitted in sorted(..., reverse=True) order
EmitEntriesReversed(table, entries) ==
    [n \in 1..Len(entries) |->
        Assign(table, entries[Len(entries) + 1 - n][1], entries[Len(entries) + 1 - n][2])]

\* result.append(f'TABLE[{key}]="{value}"') for every entry
EmitEntries(table, entries) ==
    [n \in 1..Len(entries) |-> Assign(table, entries[n][1], entries[n][2])]

\* the cursors of a list
Cursors(ls) == 0..(Len(ls) - 1)

\* while i < len(lines) and lines[i] passes the test: i += 1   -- the cursor
\* the loop stops at; holds = the cursors that pass the test
ScanWhile(ls, from, holds) ==
    Min({n \in from..Len(ls) : n = Len(ls) \/ n \notin holds})

\* lines[a:b] for 0-based a <= b
Slice(ls, a, b) == SubSeq(ls, a + 1, b)

\* lines 92-110 without the 'i += 1' of line 94 and the skip of lines 105-109
HandleMappingsNoAdvance(ls, idx, line, uv, res) ==
    LET emitted == IF uv.mappings # <<>>
                   THEN <<Blank>> \o EmitEntries("REPO_MAPPINGS", uv.mappings)
                   ELSE <<>>
    IN  [i |-> idx, result |-> (res \o <<line>>) \o emitted]

\* lines 92-110
HandleMappings(ls, idx, line, uv, res) ==
    LET emitted == IF uv.mappings # <<>>
                   THEN <<Blank>> \o EmitEntries("REPO_MAPPINGS", uv.mappings)
                   ELSE <<>>
        stop    == ScanWhile(ls, idx + 1, {n \in Cursors(ls) : ~ContainsDelimToken(At(ls, n))})
    IN  [i |-> stop, result |-> (res \o <<line>>) \o emitted]

\* lines 113-132
HandleIde(ls, idx, line, uv, res) ==
    LET first   == ScanWhile(ls, idx + 1,
                       {n \in Cursors(ls) :
                           ~StartsWithExample(At(ls, n), "REPO_IDE_CONFIGS")})
        emitted == IF uv.ide_configs # <<>>
                   THEN (<<Blank>> \o EmitEntries("REPO_IDE_CONFIGS", uv.ide_configs))
                        \o <<Blank>>
                   ELSE <<>>
        stop    == ScanWhile(ls, first,
                       {n \in Cursors(ls) :
                           StartsWithExample(At(ls, n), "REPO_IDE_CONFIGS")})
    IN  [i |-> stop,
         result |-> ((res \o <<line>>) \o Slice(ls, idx + 1, first)) \o emitted]

\* the skip loops of lines 152-165 and 186-199
SkipExamples(ls, from, section, table) ==
    LET j == ScanWhile(ls, from,
                 {n \in Cursors(ls) :
                     \/ StartsWithPlatform(At(ls, n), section, "Android")
                     \/ StartsWithPlatform(At(ls, n), section, "iOS")
                     \/ StartsWithPlatform(At(ls, n), section, "Web")
                     \/ StartsWithExample(At(ls, n), table)})
    IN  IF /\ j < Len(ls)
           /\ ~StartsWithDelim(At(ls, j))
           /\ IsBlank(At(ls, j))
           /\ j + 1 < Len(ls)
           /\ StartsWithDelim(At(ls, j + 1))
        THEN j + 1
        ELSE j

\* the handler with a declaration guard emitted before the user's entries
HandleKeyedDeclares(ls, idx, line, section, table, entries, res) ==
    LET first   == ScanWhile(ls, idx + 1,
                       {n \in Cursors(ls) :
                           ~(\/ StartsWithPlatform(At(ls, n), section, "Android")
                             \/ StartsWithExample(At(ls, n), table))})
        emitted == IF entries # <<>>
                   THEN (<<Guard(table), Blank>> \o EmitEntries(table, entries))
                        \o <<Blank>>
                   ELSE <<>>
    IN  [i |-> SkipExamples(ls, first, section, table),
         result |-> ((res \o <<line>>) \o Slice(ls, idx + 1, first)) \o emitted]

\* lines 135-166 (section = "CI") and 169-200 (section = "MOD")
HandleKeyed(ls, idx, line, section, table, entries, res) ==
    LET first   == ScanWhile(ls, idx + 1,
                       {n \in Cursors(ls) :
                           ~(\/ StartsWithPlatform(At(ls, n), section, "Android")
                             \/ StartsWithExample(At(ls, n), table))})
        emitted == IF entries # <<>>
                   THEN (<<Blank>> \o EmitEntries(table, entries)) \o <<Blank>>
                   ELSE <<>>
    IN  [i |-> SkipExamples(ls, first, section, table),
         result |-> ((res \o <<line>>) \o Slice(ls, idx + 1, first)) \o emitted]

-----------------------------------------------------------------------------
(* Documents the tools are run on                                          *)

\* src/config.zsh.example as the test fixture gives it, line for line
RefTemplate ==
    << Other("#!/usr/bin/env zsh"),
       Comment("Worktree Tools Configuration"),
       Comment("Copy to: ~/.config/worktree-tools/config.zsh"),
       Blank,
       Comment("Config version (for migrations)"),
       Scalar("CONFIG_VERSION", "1"),
       Blank,
       Delim,
       Comment("REQUIRED: Update these for your setup"),
       Delim,
       Blank,
       Scalar("GIT_USERNAME", "\"${USER}\""),
       Blank,
       Comment("Branch prefix (set to \"\" for no prefix)"),
       Comment("\"john\" creates: john/my-feature"),
       Comment("\"\" creates: my-feature"),
       Scalar("BRANCH_PREFIX", "\"${USER}\""),
       Blank,
       Comment("Where you ran setup_repos.sh (contains .repos/ and worktrees/)"),
       Comment("Examples: \"$HOME/work/mobile\", \"$HOME/dev\", \"$HOME/projects\""),
       Scalar("BASE_DEV_PATH", "\"$HOME/dev\""),
       Blank,
       Delim,
       Comment("Repository shortcuts"),
       Delim,
       Blank,
       Guard("REPO_MAPPINGS"),
       Blank,
       Comment("Add your repos here:"),
       Example("REPO_MAPPINGS", "shorthand", "Full-Repo-Name"),
       Other("#"),
       Comment("Examples:"),
       Example("REPO_MAPPINGS", "acmd", "Company-Android"),
       Example("REPO_MAPPINGS", "alib", "Company-Android-Library"),
       Example("REPO_MAPPINGS", "icmd", "Company-iOS"),
       Example("REPO_MAPPINGS", "ilib", "Company-iOS-Library"),
       Blank,
       Delim,
       Header("IDE"),
       Delim,
       Blank,
       Comment("Opens the configured IDE when you run 'ide' from within a repo"),
       Comment("Format: \"ide_type|workspace_path|fallback_command\""),
       Other("#"),
       Comment("NOTE: You can use either shorthand OR full repo name as keys."),
       Comment("      Shorthand is recommended, but both work for backward compatibility."),
       Blank,
       Example("REPO_IDE_CONFIGS", "acmd", "android-studio||"),
       Example("REPO_IDE_CONFIGS", "alib", "android-studio||"),
       Example("REPO_IDE_CONFIGS", "icmd", "xcode-workspace|Company-iOS.xcworkspace|"),
       Example("REPO_IDE_CONFIGS", "ilib", "xcode-package|.swiftpm/xcode/package.xcworkspace|swift package generate-xcodeproj"),
       Blank,
       Delim,
       Header("CI"),
       Delim,
       Blank,
       Comment("Enables running 'ci', 'test', or 'lint' from within a repo"),
       Comment("Format: \"build_cmd|test_cmd|lint_cmd\""),
       Other("#"),
       Comment("NOTE: You can use either shorthand OR full repo name as keys."),
       Comment("      Shorthand is recommended, but both work for backward compatibility."),
       Blank,
       ExComment("CI", "Android"),
       Example("REPO_CONFIGS", "acmd", "./gradlew --quiet assembleDebug|./gradlew --quiet testDebugUnitTest|./gradlew --quiet lintDebug detekt"),
       Blank,
       ExComment("CI", "iOS"),
       Example("REPO_CONFIGS", "icmd", "bundle exec fastlane build|bundle exec fastlane unit_tests|swiftlint --strict"),
       Blank,
       ExComment("CI", "Web"),
       Example("REPO_CONFIGS", "web", "npm run build|npm test|npm run lint"),
       Blank,
       Delim,
       Header("MOD"),
       Delim,
       Blank,
       Comment("For monorepos with multiple modules - lets you select which ones to build/lint"),
       Comment("Format: space-separated list of modules"),
       Other("#"),
       Comment("NOTE: You can use either shorthand OR full repo name as keys."),
       Comment("      Shorthand is recommended, but both work for backward compatibility."),
       Blank,
       ExComment("MOD", "Android"),
       Example("REPO_MODULES", "acmd", "app-core app-feature-auth app-feature-profile"),
       Blank,
       ExComment("MOD", "iOS"),
       Example("REPO_MODULES", "icmd", "CoreModule AuthModule ProfileModule"),
       Blank,
       ExComment("MOD", "Web"),
       Example("REPO_MODULES", "web", "packages/ui packages/api packages/utils"),
       Blank,
       Delim,
       Comment("Auto-computed paths (don't change unless you have custom structure)"),
       Delim,
       Blank,
       Other("BARE_REPOS_PATH=\"$BASE_DEV_PATH/.repos\""),
       Other("WORKTREES_PATH=\"$BASE_DEV_PATH/worktrees\""),
       Other("WORKTREE_TEMPLATES_PATH=\"$BASE_DEV_PATH/worktree_templates\""),
       Blank >>

\* a template that declares the keyed table and whose section has no
\* closing delimiter
GuardedTemplate ==
    << Guard("REPO_MAPPINGS"),
       Delim, Header("CI"),
       Guard("REPO_CONFIGS"),
       ExComment("CI", "iOS"),
       Example("REPO_CONFIGS", "icmd", "fastlane"),
       Blank >>

\* a template that carries an entry of its own outside the example blocks
OwnEntryTemplate ==
    << Assign("REPO_CONFIGS", "C", "npm"),
       Header("MOD"),
       Example("REPO_MODULES", "web", "packages/ui"),
       Blank >>

Templates == {RefTemplate, GuardedTemplate, OwnEntryTemplate}

UserLines ==
    { Scalar("GIT_USERNAME", "alice"),
      Scalar("GIT_USERNAME", GuardMarker),
      Assign("REPO_MAPPINGS", "a", "B"),
      Assign("REPO_MAPPINGS", "B", "C"),
      Assign("REPO_CONFIGS", "C", "x"),
      Assign("REPO_IDE_CONFIGS", "B", "x"),
      Assign("REPO_MODULES", "a", "x"),
      Guard("REPO_CONFIGS") }

\* a text file: its lines, then the empty string after the last newline
UserDocs == {d \o <<Blank>> : d \in BoundedSeq(UserLines, MaxUserLen)}

Missing == <<>>

\* Path.exists()
Exists(path) == path \in DOMAIN fs /\ fs[path] # Missing

-----------------------------------------------------------------------------
(* Process start                                                           *)

NoDict == [t \in {"REPO_CONFIGS", "REPO_MODULES", "REPO_IDE_CONFIGS"} |-> FALSE]

Fresh ==
    /\ pc = "start"
    /\ exitCode = -1
    /\ user_config = <<>>
    /\ user_values = NoValues
    /\ lines = <<>>
    /\ i = 0
    /\ result = <<>>
    /\ needs_declaration = NoDict
    /\ declared = NoDict
    /\ issues = <<>>
    /\ fixes = <<>>
    /\ fixed = FALSE
    /\ had_issues = FALSE

InitNormalize ==
    /\ tool = "normalize"
    /\ \/ /\ argv = <<"cfg">>
          /\ fs \in [{"cfg", "tpl"} -> UserDocs \cup Templates]
          /\ fs["cfg"] \in UserDocs
          /\ fs["tpl"] \in Templates
       \/ /\ argv \in {<<>>, <<"cfg", "--fix">>, <<"--fix">>}
          /\ fs = [p \in {"cfg", "tpl"} |-> IF p = "cfg" THEN <<Blank>> ELSE RefTemplate]
       \/ /\ argv = <<"cfg">>
          /\ fs \in { [p \in {"cfg", "tpl"} |-> IF p = "cfg" THEN Missing ELSE RefTemplate],
                      [p \in {"cfg", "tpl"} |-> IF p = "cfg" THEN <<Blank>> ELSE Missing] }

ValLines ==
    { Assign("REPO_IDE_CONFIGS", "acmd", "android-studio||"),
      Assign("REPO_CONFIGS", "acmd", "gradlew"),
      Assign("REPO_MODULES", "acmd", "core"),
      Guard("REPO_CONFIGS"),
      CGuard("REPO_CONFIGS"),
      Assign("REPO_MAPPINGS", "acmd", "App-Android"),
      Delim }

ValDocs == {d \o <<Blank>> : d \in BoundedSeq(ValLines, MaxValLen)}

InitValidate ==
    /\ tool = "validate"
    /\ \/ /\ argv \in {<<"cfg">>, <<"cfg", "--fix">>}
          /\ fs \in [{"cfg", "tpl"} -> ValDocs \cup {Missing}]
          /\ fs["tpl"] = Missing
       \/ /\ argv \in {<<>>, <<"--fix">>}
          /\ fs = [p \in {"cfg", "tpl"} |-> IF p = "cfg" THEN <<Blank>> ELSE Missing]

Init ==
    /\ (InitNormalize \/ InitValidate)
    /\ backups = <<>>
    /\ run = 1
    /\ prev_result = <<>>
    /\ Fresh

-----------------------------------------------------------------------------
(* normalize_config.py main()                                              *)

Exit(code) ==
    /\ pc' = "done"
    /\ exitCode' = code

\* lines 209-214
NormalizeUsage ==
    /\ tool = "normalize" /\ pc = "start"
    /\ Len(argv) # 1
    /\ Exit(1)
    /\ UNCHANGED <<tool, argv, fs, backups, run, prev_result, user_config, user_values, lines,
                   i, result, needs_declaration, declared, issues, fixes, fixed,
                   had_issues>>

\* lines 216-220
NormalizeConfigNotFound ==
    /\ tool = "normalize" /\ pc = "start"
    /\ Len(argv) = 1
    /\ ~Exists(argv[1])
    /\ Exit(1)
    /\ UNCHANGED <<tool, argv, fs, backups, run, prev_result, user_config, user_values, lines,
                   i, result, needs_declaration, declared, issues, fixes, fixed,
                   had_issues>>

\* the template test of lines 227-229 made after the backup of lines 236-240
NormalizeExampleNotFoundLate ==
    /\ tool = "normalize" /\ pc = "start"
    /\ Len(argv) = 1
    /\ Exists(argv[1])
    /\ ~Exists("tpl")
    /\ backups' = Append(backups, fs[argv[1]])
    /\ Exit(1)
    /\ UNCHANGED <<tool, argv, fs, run, prev_result, user_config, user_values, lines,
                   i, result, needs_declaration, declared, issues, fixes, fixed,
                   had_issues>>

\* lines 222-229
NormalizeExampleNotFound ==
    /\ tool = "normalize" /\ pc = "start"
    /\ Len(argv) = 1
    /\ Exists(argv[1])
    /\ ~Exists("tpl")
    /\ Exit(1)
    /\ UNCHANGED <<tool, argv, fs, backups, run, prev_result, user_config, user_values, lines,
                   i, result, needs_declaration, declared, issues, fixes, fixed,
                   had_issues>>

\* backup_path.write_text(...): the file is named after the config, the tool
\* and the second the clock shows.  The invocations of one behaviour are of
\* the same tool on the same config, so within the second in which the
\* newest backup was written the name is that backup's and the file is
\* written over; in a later second the file is a new one
WriteBackup(content) ==
    \E same_second \in BOOLEAN :
        backups' = IF same_second /\ backups # <<>>
                   THEN [backups EXCEPT ![Len(backups)] = content]
                   ELSE Append(backups, content)

\* main() without its lines 236-240
NormalizeWithoutBackup ==
    /\ tool = "normalize" /\ pc = "start"
    /\ Len(argv) = 1
    /\ Exists(argv[1])
    /\ Exists("tpl")
    /\ pc' = "read"
    /\ UNCHANGED <<tool, argv, fs, backups, run, prev_result, exitCode, user_config,
                   user_values, lines, i, result, needs_declaration, declared,
                   issues, fixes, fixed, had_issues>>

\* lines 236-240
NormalizeBackup ==
    /\ tool = "normalize" /\ pc = "start"
    /\ Len(argv) = 1
    /\ Exists(argv[1])
    /\ Exists("tpl")
    /\ WriteBackup(fs[argv[1]])
    /\ pc' = "read"
    /\ UNCHANGED <<tool, argv, fs, run, prev_result, exitCode, user_config, user_values, lines,
                   i, result, needs_declaration, declared, issues, fixes, fixed,
                   had_issues>>

\* lines 242-247 and the head of normalize(), lines 78-80
NormalizeRead ==
    /\ tool = "normalize" /\ pc = "read"
    /\ user_config' = fs[argv[1]]
    /\ user_values' = ExtractUserValues(fs[argv[1]])
    /\ lines' = fs["tpl"]
    /\ result' = <<>>
    /\ i' = 0
    /\ pc' = "loop"
    /\ UNCHANGED <<tool, argv, fs, backups, run, prev_result, exitCode, needs_declaration,
                   declared, issues, fixes, fixed, had_issues>>

\* the line the iteration works on, after lines 85-89
CurrentLine == SubstituteSimple(At(lines, i), user_values.simple)

InLoop == tool = "normalize" /\ pc = "loop" /\ i < Len(lines)

Advance(next) ==
    /\ i' = next.i
    /\ result' = next.result
    /\ UNCHANGED <<tool, argv, fs, backups, pc, run, prev_result, exitCode, user_config,
                   user_values, lines, needs_declaration, declared, issues,
                   fixes, fixed, had_issues>>

MergeMappings ==
    /\ InLoop
    /\ ContainsMappingsGuard(CurrentLine)
    /\ Advance(HandleMappings(lines, i, CurrentLine, user_values, result))

MergeIde ==
    /\ InLoop
    /\ ~ContainsMappingsGuard(CurrentLine)
    /\ StartsWithHeader(CurrentLine, "IDE")
    /\ Advance(HandleIde(lines, i, CurrentLine, user_values, result))

MergeCi ==
    /\ InLoop
    /\ ~ContainsMappingsGuard(CurrentLine)
    /\ ~StartsWithHeader(CurrentLine, "IDE")
    /\ StartsWithHeader(CurrentLine, "CI")
    /\ Advance(HandleKeyed(lines, i, CurrentLine, "CI", "REPO_CONFIGS",
                           user_values.repo_configs, result))

MergeModules ==
    /\ InLoop
    /\ ~ContainsMappingsGuard(CurrentLine)
    /\ ~StartsWithHeader(CurrentLine, "IDE")
    /\ ~StartsWithHeader(CurrentLine, "CI")
    /\ StartsWithHeader(CurrentLine, "MOD")
    /\ Advance(HandleKeyed(lines, i, CurrentLine, "MOD", "REPO_MODULES",
                           user_values.repo_modules, result))

\* lines 202-203
MergeCopy ==
    /\ InLoop
    /\ ~ContainsMappingsGuard(CurrentLine)
    /\ ~StartsWithHeader(CurrentLine, "IDE")
    /\ ~StartsWithHeader(CurrentLine, "CI")
    /\ ~StartsWithHeader(CurrentLine, "MOD")
    /\ Advance([i |-> i + 1, result |-> Append(result, CurrentLine)])

\* lines 205 and 250-251
NormalizeWrite ==
    /\ tool = "normalize" /\ pc = "loop"
    /\ i >= Len(lines)
    /\ fs' = [fs EXCEPT ![argv[1]] = result]
    /\ Exit(0)
    /\ UNCHANGED <<tool, argv, backups, run, prev_result, user_config, user_values, lines, i,
                   result, needs_declaration, declared, issues, fixes, fixed,
                   had_issues>>

-----------------------------------------------------------------------------
(* validate_config.py                                                      *)

\* the keys of needs_declaration and declared
ArrayNames == {"REPO_CONFIGS", "REPO_MODULES", "REPO_IDE_CONFIGS"}

\* the test written for 'declare -A', which no guard line contains
ContainsDeclareTypo(l, array_name) ==
    l.kind = "declare -A" /\ l.name = array_name

\* f'declare -gA {array_name}' in line
ContainsDeclare(l, array_name) ==
    l.kind \in {"guard", "cguard"} /\ l.name = array_name

\* re.match(rf'^{array_name}\[', line)
MatchesArrayUse(l, array_name) == l.kind = "assign" /\ l.name = array_name

\* the first pass over the lines, lines 69-78
ScanDeclared(config) ==
    [t \in ArrayNames |->
        \E n \in 1..Len(config) : ContainsDeclare(config[n], t)]

ScanNeeds(config) ==
    [t \in ArrayNames |->
        \E n \in 1..Len(config) : MatchesArrayUse(config[n], t)]

\* the block without its 'not declared[...]' test
AddDeclarationAlways(st, line, array_name) ==
    IF /\ st.needs_declaration[array_name]
       /\ MatchesArrayUse(line, array_name)
    THEN [st EXCEPT !.issues   = Append(@, <<"Missing declaration", array_name>>),
                    !.fixes    = Append(@, <<"Added", array_name>>),
                    !.result   = (@ \o <<Guard(array_name)>>) \o <<Blank>>,
                    !.declared = [@ EXCEPT ![array_name] = TRUE],
                    !.fixed    = TRUE]
    ELSE st

\* one of the three blocks of lines 85-113, for the array it names
AddDeclaration(st, line, array_name) ==
    IF /\ st.needs_declaration[array_name]
       /\ ~st.declared[array_name]
       /\ MatchesArrayUse(line, array_name)
    THEN [st EXCEPT !.issues   = Append(@, <<"Missing declaration", array_name>>),
                    !.fixes    = Append(@, <<"Added", array_name>>),
                    !.result   = (@ \o <<Guard(array_name)>>) \o <<Blank>>,
                    !.declared = [@ EXCEPT ![array_name] = TRUE],
                    !.fixed    = TRUE]
    ELSE st

\* the body of the second pass, lines 83-116
DeclarationStep(st, line) ==
    LET s1 == AddDeclaration(st, line, "REPO_IDE_CONFIGS")
        s2 == AddDeclaration(s1, line, "REPO_CONFIGS")
        s3 == AddDeclaration(s2, line, "REPO_MODULES")
    IN  [s3 EXCEPT !.result = Append(@, line)]

\* '--fix' in sys.argv
should_fix == \E n \in 1..Len(argv) : argv[n] = "--fix"

\* lines 151-156
ValidateUsage ==
    /\ tool = "validate" /\ pc = "start"
    /\ Len(argv) < 1
    /\ Exit(1)
    /\ UNCHANGED <<tool, argv, fs, backups, run, prev_result, user_config, user_values, lines,
                   i, result, needs_declaration, declared, issues, fixes, fixed,
                   had_issues>>

\* lines 28-29, caught at lines 200-202
ValidateNotFound ==
    /\ tool = "validate" /\ pc = "start"
    /\ Len(argv) >= 1
    /\ ~Exists(argv[1])
    /\ Exit(1)
    /\ UNCHANGED <<tool, argv, fs, backups, run, prev_result, user_config, user_values, lines,
                   i, result, needs_declaration, declared, issues, fixes, fixed,
                   had_issues>>

\* lines 31-33 and the head of _fix_missing_declarations, lines 49-81
ValidateRead ==
    /\ tool = "validate" /\ pc = "start"
    /\ Len(argv) >= 1
    /\ Exists(argv[1])
    /\ user_config' = fs[argv[1]]
    /\ lines' = fs[argv[1]]
    /\ needs_declaration' = ScanNeeds(fs[argv[1]])
    /\ declared' = ScanDeclared(fs[argv[1]])
    /\ result' = <<>>
    /\ fixed' = FALSE
    /\ i' = 0
    /\ had_issues' = FALSE
    /\ pc' = "declarations"
    /\ UNCHANGED <<tool, argv, fs, backups, run, prev_result, exitCode, user_values, issues,
                   fixes>>

\* one iteration of the loop of lines 82-116
FixDeclarationsStep ==
    /\ tool = "validate" /\ pc = "declarations"
    /\ i < Len(lines)
    /\ LET st == DeclarationStep([needs_declaration |-> needs_declaration,
                                  declared |-> declared, issues |-> issues,
                                  fixes |-> fixes, result |-> result,
                                  fixed |-> fixed], At(lines, i))
       IN  /\ declared' = st.declared
           /\ issues' = st.issues
           /\ fixes' = st.fixes
           /\ result' = st.result
           /\ fixed' = st.fixed
    /\ i' = i + 1
    /\ UNCHANGED <<tool, argv, fs, backups, pc, run, prev_result, exitCode, user_config,
                   user_values, lines, needs_declaration, had_issues>>

\* line 118, lines 36-38 and the head of _fix_section_spacing, lines 122-125
FixDeclarationsReturn ==
    /\ tool = "validate" /\ pc = "declarations"
    /\ i >= Len(lines)
    /\ had_issues' = fixed
    /\ lines' = result
    /\ result' = <<>>
    /\ fixed' = FALSE
    /\ i' = 0
    /\ pc' = "spacing"
    /\ UNCHANGED <<tool, argv, fs, backups, run, prev_result, exitCode, user_config,
                   user_values, needs_declaration, declared, issues, fixes>>

\* the iteration with the blank line added where line 143 has 'pass'
FixSpacingStepAddsBlank ==
    /\ tool = "validate" /\ pc = "spacing"
    /\ i < Len(lines)
    /\ LET missing == /\ At(lines, i).kind = "assign"
                       /\ At(lines, i).name = "REPO_MAPPINGS"
                       /\ i + 1 < Len(lines)
                       /\ At(lines, i + 1).kind = "delim"
       IN  /\ result' = IF missing THEN Append(result, At(lines, i)) \o <<Blank>>
                                   ELSE Append(result, At(lines, i))
           /\ fixed' = (fixed \/ missing)
    /\ i' = i + 1
    /\ UNCHANGED <<tool, argv, fs, backups, pc, run, prev_result, exitCode, user_config,
                   user_values, lines, needs_declaration, declared, issues,
                   fixes, had_issues>>

\* one iteration of the loop of lines 127-145: the look-ahead of lines
\* 132-143 ends in 'pass'
FixSpacingStep ==
    /\ tool = "validate" /\ pc = "spacing"
    /\ i < Len(lines)
    /\ result' = Append(result, At(lines, i))
    /\ i' = i + 1
    /\ UNCHANGED <<tool, argv, fs, backups, pc, run, prev_result, exitCode, user_config,
                   user_values, lines, needs_declaration, declared, issues,
                   fixes, fixed, had_issues>>

\* line 147 and lines 41-45: result now holds fixed_config
FixSpacingReturn ==
    /\ tool = "validate" /\ pc = "spacing"
    /\ i >= Len(lines)
    /\ had_issues' = (had_issues \/ fixed)
    /\ pc' = "report"
    /\ UNCHANGED <<tool, argv, fs, backups, run, prev_result, exitCode, user_config,
                   user_values, lines, i, result, needs_declaration, declared,
                   issues, fixes, fixed>>

\* lines 170-172
ValidateNoIssues ==
    /\ tool = "validate" /\ pc = "report"
    /\ ~had_issues
    /\ Exit(0)
    /\ UNCHANGED <<tool, argv, fs, backups, run, prev_result, user_config, user_values, lines,
                   i, result, needs_declaration, declared, issues, fixes, fixed,
                   had_issues>>

\* the report without the sys.exit(1) of line 198: main() returns
ValidateReportOnlyReturns ==
    /\ tool = "validate" /\ pc = "report"
    /\ had_issues
    /\ ~should_fix
    /\ Exit(0)
    /\ UNCHANGED <<tool, argv, fs, backups, run, prev_result, user_config, user_values, lines,
                   i, result, needs_declaration, declared, issues, fixes, fixed,
                   had_issues>>

\* lines 174-180 and 196-198
ValidateReportOnly ==
    /\ tool = "validate" /\ pc = "report"
    /\ had_issues
    /\ ~should_fix
    /\ Exit(1)
    /\ UNCHANGED <<tool, argv, fs, backups, run, prev_result, user_config, user_values, lines,
                   i, result, needs_declaration, declared, issues, fixes, fixed,
                   had_issues>>

\* lines 180-186
ValidateBackup ==
    /\ tool = "validate" /\ pc = "report"
    /\ had_issues
    /\ should_fix
    /\ WriteBackup(fs[argv[1]])
    /\ pc' = "write"
    /\ UNCHANGED <<tool, argv, fs, run, prev_result, exitCode, user_config, user_values, lines,
                   i, result, needs_declaration, declared, issues, fixes, fixed,
                   had_issues>>

\* lines 188-195
ValidateWrite ==
    /\ tool = "validate" /\ pc = "write"
    /\ fs' = [fs EXCEPT ![argv[1]] = result]
    /\ Exit(0)
    /\ UNCHANGED <<tool, argv, backups, run, prev_result, user_config, user_values, lines, i,
                   result, needs_declaration, declared, issues, fixes, fixed,
                   had_issues>>

\* the tool is invoked again on the files the previous invocation left
Rerun ==
    /\ pc = "done"
    /\ run < MaxRuns
    /\ run' = run + 1
    /\ prev_result' = result
    /\ pc' = "start"
    /\ exitCode' = -1
    /\ user_config' = <<>>
    /\ user_values' = NoValues
    /\ lines' = <<>>
    /\ i' = 0
    /\ result' = <<>>
    /\ needs_declaration' = NoDict
    /\ declared' = NoDict
    /\ issues' = <<>>
    /\ fixes' = <<>>
    /\ fixed' = FALSE
    /\ had_issues' = FALSE
    /\ UNCHANGED <<tool, argv, fs, backups>>

Next ==
    \/ NormalizeUsage
    \/ NormalizeConfigNotFound
    \/ NormalizeExampleNotFound
    \/ NormalizeBackup
    \/ NormalizeRead
    \/ MergeMappings
    \/ MergeIde
    \/ MergeCi
    \/ MergeModules
    \/ MergeCopy
    \/ NormalizeWrite
    \/ ValidateUsage
    \/ ValidateNotFound
    \/ ValidateRead
    \/ FixDeclarationsStep
    \/ FixDeclarationsReturn
    \/ FixSpacingStep
    \/ FixSpacingReturn
    \/ ValidateNoIssues
    \/ ValidateReportOnly
    \/ ValidateBackup
    \/ ValidateWrite
    \/ Rerun

Spec == Init /\ [][Next]_vars

\* the steps of one invocation
RunStep ==
    \/ NormalizeUsage
    \/ NormalizeConfigNotFound
    \/ NormalizeExampleNotFound
    \/ NormalizeBackup
    \/ NormalizeRead
    \/ MergeMappings
    \/ MergeIde
    \/ MergeCi
    \/ MergeModules
    \/ MergeCopy
    \/ NormalizeWrite
    \/ ValidateUsage
    \/ ValidateNotFound
    \/ ValidateRead
    \/ FixDeclarationsStep
    \/ FixDeclarationsReturn
    \/ FixSpacingStep
    \/ FixSpacingReturn
    \/ ValidateNoIssues
    \/ ValidateReportOnly
    \/ ValidateBackup
    \/ ValidateWrite

\* the runs on the documents of at most MaxFairLen lines
InitSmall == Init /\ Len(fs["cfg"]) <= MaxFairLen + 1

\* one invocation of a tool: a started process runs on until it exits
FairSpec == InitSmall /\ [][RunStep]_vars /\ WF_vars(RunStep)

\* the templates other than the reference template
AltTemplates == {GuardedTemplate, OwnEntryTemplate}

\* user documents made of alias entries that share a shorthand or a
\* canonical name or form a chain, and of entries keyed by the canonical
\* names
AliasLines ==
    { Assign("REPO_MAPPINGS", "a", "B"),
      Assign("REPO_MAPPINGS", "B", "C"),
      Assign("REPO_MAPPINGS", "a", "C"),
      Assign("REPO_MAPPINGS", "b", "C"),
      Assign("REPO_CONFIGS", "C", "x"),
      Assign("REPO_MODULES", "B", "x") }

AliasDocs == {d \o <<Blank>> : d \in BoundedSeq(AliasLines, MaxAliasLen)}

\* the merge tool run on these documents, besides the runs of InitSmall
InitAlias ==
    \/ InitSmall
    \/ /\ tool = "normalize"
       /\ argv = <<"cfg">>
       /\ fs \in [{"cfg", "tpl"} -> AliasDocs \cup AltTemplates]
       /\ fs["cfg"] \in AliasDocs
       /\ fs["tpl"] \in AltTemplates
       /\ backups = <<>>
       /\ run = 1
       /\ prev_result = <<>>
       /\ Fresh

SpecAlias == InitAlias /\ [][Next]_vars

\* the entries a user document of ordered entries is made of: two alias
\* entries, and for each keyed table one entry written with a canonical name
\* and one written with a shorthand
OrderLine(table, k) ==
    IF table = "REPO_MAPPINGS"
    THEN Assign(table, IF k = 1 THEN "a" ELSE "b", IF k = 1 THEN "A" ELSE "B")
    ELSE Assign(table, IF k = 1 THEN "A" ELSE "b", IF k = 1 THEN "x" ELSE "y")

\* the entries of one table in the order s, when the document has the table
OrderBlock(present, s, table) ==
    IF table \in present THEN [n \in 1..Len(s) |-> OrderLine(table, s[n])] ELSE <<>>

\* a document that lists its tables one after the other, the alias table last
TableMajor(present, s) ==
    OrderBlock(present, s, "REPO_MODULES") \o OrderBlock(present, s, "REPO_CONFIGS")
        \o OrderBlock(present, s, "REPO_IDE_CONFIGS")
        \o OrderBlock(present, s, "REPO_MAPPINGS")

\* a document whose tables are interleaved: the first entry of every table,
\* then the second of every table, and so on
RECURSIVE RowMajor(_, _)
RowMajor(present, s) ==
    IF s = <<>> THEN <<>>
    ELSE TableMajor(present, <<Head(s)>>) \o RowMajor(present, Tail(s))

\* user documents with up to MaxOrderLen entries per table, in either order
\* and with repetitions
OrderDocs ==
    LET tables == {"REPO_MAPPINGS", "REPO_IDE_CONFIGS", "REPO_CONFIGS", "REPO_MODULES"}
    IN  UNION { { TableMajor(present, s) \o <<Blank>>, RowMajor(present, s) \o <<Blank>> } :
                  present \in SUBSET tables, s \in BoundedSeq({1, 2}, MaxOrderLen) }

\* the merge tool run on these documents, besides the runs of InitSmall
InitOrder ==
    \/ InitSmall
    \/ /\ tool = "normalize"
       /\ argv = <<"cfg">>
       /\ fs \in [{"cfg", "tpl"} -> OrderDocs \cup Templates]
       /\ fs["cfg"] \in OrderDocs
       /\ fs["tpl"] \in Templates
       /\ backups = <<>>
       /\ run = 1
       /\ prev_result = <<>>
       /\ Fresh

SpecOrder == InitOrder /\ [][Next]_vars

-----------------------------------------------------------------------------
(* Vocabulary of the properties, read off the user document itself         *)

Tables == {"REPO_MAPPINGS", "REPO_IDE_CONFIGS", "REPO_CONFIGS", "REPO_MODULES"}

KeyedTables == {"REPO_IDE_CONFIGS", "REPO_CONFIGS", "REPO_MODULES"}

Count(doc, l) == Cardinality({n \in 1..Len(doc) : doc[n] = l})

\* the uncommented assignment lines of a table, in document order
AssignLines(doc, table) ==
    SelectSeq(doc, LAMBDA l : l.kind = "assign" /\ l.name = table)

CanonicalNames(doc) ==
    {AssignLines(doc, "REPO_MAPPINGS")[n].value :
        n \in 1..Len(AssignLines(doc, "REPO_MAPPINGS"))}

Shorthands(doc) ==
    {AssignLines(doc, "REPO_MAPPINGS")[n].key :
        n \in 1..Len(AssignLines(doc, "REPO_MAPPINGS"))}

\* the key as the alias table of the document normalizes it
ShortOf(doc, k) ==
    LET alias == AssignLines(doc, "REPO_MAPPINGS")
    IN  IF k \in CanonicalNames(doc)
        THEN alias[Max({n \in 1..Len(alias) : alias[n].value = k})].key
        ELSE k

\* the lines the user's entries of a table are to be emitted as, in order
UserEntries(doc, table) ==
    LET raw == AssignLines(doc, table)
    IN  [n \in 1..Len(raw) |->
            IF table = "REPO_MAPPINGS" THEN raw[n]
            ELSE Assign(table, ShortOf(doc, raw[n].key), raw[n].value)]

\* no shorthand of the alias table is also one of its canonical names
NoChain(doc) == Shorthands(doc) \cap CanonicalNames(doc) = {}

\* the template has no uncommented assignment line of its own
NoOwnEntries(tpl) == \A n \in 1..Len(tpl) : tpl[n].kind # "assign"

\* a merge has completed
Merged == tool = "normalize" /\ pc = "done" /\ exitCode = 0

MergedRef == Merged /\ lines = RefTemplate

\* the user values have been extracted
Extracted == tool = "normalize" /\ pc \in {"loop", "done"} /\ user_config # <<>>

-----------------------------------------------------------------------------
(* Properties                                                              *)

\* C1: merged against the reference template, every scalar setting of the
\* user document appears exactly once as NAME=<value>, and every alias entry
\* and keyed entry appears as Table[key]="value", key normalized through the
\* alias table, once per entry of the user document.
C1_RoundTrip ==
    MergedRef =>
        /\ \A var \in {"GIT_USERNAME", "BRANCH_PREFIX", "BASE_DEV_PATH", "CONFIG_VERSION"} :
               LET hit == {n \in 1..Len(user_config) :
                              user_config[n].kind = "scalar" /\ user_config[n].name = var}
               IN  hit # {} =>
                       Count(result, Scalar(var, user_config[Min(hit)].value)) = 1
        /\ \A table \in Tables :
               \A n \in 1..Len(UserEntries(user_config, table)) :
                   Count(result, UserEntries(user_config, table)[n])
                       = Count(UserEntries(user_config, table),
                               UserEntries(user_config, table)[n])

\* C2: merging the output of a merge again against the same template gives
\* that output back, line for line.
C2_MergeIdempotent ==
    (Merged /\ run >= 2 /\ user_config = prev_result) => result = user_config

\* C3 as stated: for every alias table, a key that has been mapped through
\* the reverse map is left unchanged by mapping it again.
C3_ResolveIdempotentAnyTable ==
    Extracted =>
        /\ \A n \in 1..Len(user_values.ide_configs) :
               ShortOf(user_config, user_values.ide_configs[n][1])
                   = user_values.ide_configs[n][1]
        /\ \A n \in 1..Len(user_values.repo_configs) :
               ShortOf(user_config, user_values.repo_configs[n][1])
                   = user_values.repo_configs[n][1]
        /\ \A n \in 1..Len(user_values.repo_modules) :
               ShortOf(user_config, user_values.repo_modules[n][1])
                   = user_values.repo_modules[n][1]

\* C3 amended: when no shorthand of the alias table is also a canonical name
\* of it, a key that has been mapped through the reverse map is left
\* unchanged by mapping it again.
C3_ResolveIdempotent ==
    (Extracted /\ NoChain(user_config)) =>
        /\ \A n \in 1..Len(user_values.ide_configs) :
               ShortOf(user_config, user_values.ide_configs[n][1])
                   = user_values.ide_configs[n][1]
        /\ \A n \in 1..Len(user_values.repo_configs) :
               ShortOf(user_config, user_values.repo_configs[n][1])
                   = user_values.repo_configs[n][1]
        /\ \A n \in 1..Len(user_values.repo_modules) :
               ShortOf(user_config, user_values.repo_modules[n][1])
                   = user_values.repo_modules[n][1]

\* a user document without alias chain in which an entry is keyed by a
\* canonical name has been extracted
C3_Witness ==
    /\ Extracted
    /\ NoChain(user_config)
    /\ \E n \in 1..Len(user_config) :
           /\ user_config[n].kind = "assign"
           /\ user_config[n].name \in KeyedTables
           /\ user_config[n].key \in CanonicalNames(user_config)

\* C4 as stated: no keyed line of merge's output is keyed by a canonical
\* name of the user's alias table.
C4_NoCanonicalKeyAnyTable ==
    Merged =>
        \A n \in 1..Len(result) :
            (result[n].kind = "assign" /\ result[n].name \in KeyedTables)
                => result[n].key \notin CanonicalNames(user_config)

\* C4 amended: when no shorthand of the user's alias table is also a
\* canonical name of it and the template has no uncommented assignment line
\* of its own, no keyed line of merge's output is keyed by a canonical name
\* of the user's alias table.
C4_NoCanonicalKey ==
    (Merged /\ NoChain(user_config) /\ NoOwnEntries(lines)) =>
        \A n \in 1..Len(result) :
            (result[n].kind = "assign" /\ result[n].name \in KeyedTables)
                => result[n].key \notin CanonicalNames(user_config)

\* an entry written with a canonical key has been emitted with its shorthand
C4_Witness ==
    /\ Merged
    /\ NoOwnEntries(lines)
    /\ NoChain(user_config)
    /\ \E n \in 1..Len(user_config) :
           /\ user_config[n].kind = "assign"
           /\ user_config[n].name \in KeyedTables
           /\ user_config[n].key \in CanonicalNames(user_config)
           /\ Count(result, Assign(user_config[n].name,
                                   ShortOf(user_config, user_config[n].key),
                                   user_config[n].value)) >= 1

\* a is b with some elements left out
RECURSIVE IsSubseq(_, _)
IsSubseq(a, b) ==
    IF a = <<>> THEN TRUE
    ELSE IF b = <<>> THEN FALSE
    ELSE IF Head(a) = Head(b) THEN IsSubseq(Tail(a), Tail(b))
    ELSE IsSubseq(a, Tail(b))

\* C5: in the output of a merge, for each of the four tables, the user's
\* entries of that table that appear in the output appear there in the order
\* in which they occur in the user document.
C5_OrderPreserved ==
    Merged =>
        \A table \in Tables :
            LET out   == AssignLines(result, table)
                want  == UserEntries(user_config, table)
                shown == SelectSeq(want, LAMBDA l : Count(out, l) > 0)
            IN  IsSubseq(shown, out)

\* the user document has two different entries in each of the four tables,
\* one of each keyed table written with a canonical name, and the merge
\* against the reference template has emitted them all
C5_Witness ==
    /\ MergedRef
    /\ \A table \in Tables :
           /\ Len(AssignLines(user_config, table)) >= 2
           /\ AssignLines(user_config, table)[1] # AssignLines(user_config, table)[2]
           /\ AssignLines(result, table) = UserEntries(user_config, table)
    /\ \E table \in KeyedTables :
           AssignLines(result, table) # AssignLines(user_config, table)

\* C6: merged against the reference template, the uncommented assignment
\* lines of each table in the output are exactly the user's entries of that
\* table (none when the user has none).
C6_OnlyUserEntries ==
    MergedRef =>
        \A table \in Tables :
            AssignLines(result, table) = UserEntries(user_config, table)

\* the template lines the merger is to suppress: the alias block after the
\* declaration guard up to the next delimiter, and in each optional section
\* the first run of example lines (for CI and modules with one blank line
\* that stands right before a delimiter)
IsExampleOf(l, section) ==
    \/ section = "IDE" /\ l.kind = "example" /\ l.name = "REPO_IDE_CONFIGS"
    \/ section = "CI"  /\ l.kind = "example" /\ l.name = "REPO_CONFIGS"
    \/ section = "MOD" /\ l.kind = "example" /\ l.name = "REPO_MODULES"
    \/ section \in {"CI", "MOD"} /\ l.kind = "excomment" /\ l.name = section

InAliasBlock(tpl, n) ==
    \E g \in 1..(n - 1) :
        /\ tpl[g] = Guard("REPO_MAPPINGS")
        /\ \A m \in (g + 1)..n : tpl[m].kind # "delim"

InExampleBlock(tpl, n) ==
    \E section \in {"IDE", "CI", "MOD"} :
        \E h \in 1..(n - 1) :
            /\ tpl[h] = Header(section)
            /\ \E f \in (h + 1)..n :
                   /\ \A m \in (h + 1)..(f - 1) : ~IsExampleOf(tpl[m], section)
                   /\ \A m \in f..(n - 1) : IsExampleOf(tpl[m], section)
                   /\ \/ IsExampleOf(tpl[n], section)
                      \/ /\ section \in {"CI", "MOD"}
                         /\ f < n
                         /\ tpl[n].kind = "blank"
                         /\ n < Len(tpl)
                         /\ tpl[n + 1].kind = "delim"

Suppressed(tpl, n) == InAliasBlock(tpl, n) \/ InExampleBlock(tpl, n)

\* the template lines that are neither suppressed nor a scalar line the
\* user document has a value for
KeptLines(tpl, doc) ==
    LET keep(n) ==
            /\ ~Suppressed(tpl, n)
            /\ ~(/\ tpl[n].kind = "scalar"
                 /\ \E m \in 1..Len(doc) :
                        doc[m].kind = "scalar" /\ doc[m].name = tpl[n].name)
        idx == SelectSeq([n \in 1..Len(tpl) |-> n], keep)
    IN  [n \in 1..Len(idx) |-> tpl[idx[n]]]

\* C7: every line of the reference template that is not a substituted scalar
\* line and not inside a suppressed example block is in the output verbatim,
\* in the template's order.
C7_StructurePreserved ==
    MergedRef => IsSubseq(KeptLines(lines, user_config), result)

-----------------------------------------------------------------------------
(* Properties of the validator                                             *)

\* validate_and_fix has returned: result holds the fixed document
Validated ==
    tool = "validate" /\ pc \in {"report", "write", "done"} /\ user_config # <<>>

AssignAt(doc, t) == {n \in 1..Len(doc) : doc[n].kind = "assign" /\ doc[n].name = t}

GuardAt(doc, t) == {n \in 1..Len(doc) : doc[n] = Guard(t)}

\* the first assignment of the table has no guard of the table before it
UsedUndeclared(doc, t) ==
    /\ AssignAt(doc, t) # {}
    /\ \A g \in GuardAt(doc, t) : g > Min(AssignAt(doc, t))

\* C8: when a keyed table has an assignment with no declaration guard of
\* that table before it, the fixed document has the guard strictly before
\* the table's first assignment and exactly one issue names the table.
C8_DeclarationInserted ==
    Validated =>
        \A t \in KeyedTables :
            UsedUndeclared(user_config, t) =>
                /\ ~UsedUndeclared(result, t)
                /\ Count(issues, <<"Missing declaration", t>>) = 1

\* C9: validating the fixed document a previous validation returned reports
\* no issue, returns had_issues = FALSE and returns the document unchanged.
C9_FixIsStable ==
    (Validated /\ run >= 2 /\ user_config = prev_result) =>
        /\ issues = <<>>
        /\ ~had_issues
        /\ result = user_config

\* the second validation of a document the first one had to fix
C9_Witness ==
    /\ Validated
    /\ run = 2
    /\ user_config = prev_result
    /\ Len(backups) = 1
    /\ backups[1] # user_config

\* C10: when every keyed table that has assignments also has its
\* declaration guard, validation returns had_issues = FALSE, no issue and the
\* document itself.
C10_CleanInputUntouched ==
    (Validated /\ \A t \in KeyedTables :
                      AssignAt(user_config, t) # {} => GuardAt(user_config, t) # {}) =>
        /\ ~had_issues
        /\ issues = <<>>
        /\ result = user_config

\* a document that uses a declared table has been validated
C10_Witness ==
    /\ Validated
    /\ run = 1
    /\ \A t \in KeyedTables :
           AssignAt(user_config, t) # {} => GuardAt(user_config, t) # {}
    /\ \E t \in KeyedTables : AssignAt(user_config, t) # {}

\* the keyed tables that have an assignment line and no declaration guard
UndeclaredTables(doc) ==
    {t \in KeyedTables : AssignAt(doc, t) # {} /\ GuardAt(doc, t) = {}}

FirstUse(doc, t) == Min(AssignAt(doc, t))

\* one issue per undeclared table, in the order of the tables' first
\* assignment lines
ExpectedIssues(doc) ==
    LET U == UndeclaredTables(doc)
        order == CHOOSE f \in [1..Cardinality(U) -> U] :
                     \A a, b \in 1..Cardinality(U) :
                         a < b => FirstUse(doc, f[a]) < FirstUse(doc, f[b])
    IN  [n \in 1..Cardinality(U) |-> <<"Missing declaration", order[n]>>]

\* the document with a guard line and a blank line put before the first
\* assignment line of each undeclared table, and nothing else changed
RECURSIVE ExpectedFixedFrom(_, _)
ExpectedFixedFrom(doc, n) ==
    IF n > Len(doc) THEN <<>>
    ELSE LET here == {t \in UndeclaredTables(doc) : FirstUse(doc, t) = n}
         IN  (IF here = {} THEN <<doc[n]>>
              ELSE <<Guard(CHOOSE t \in here : TRUE), Blank, doc[n]>>)
             \o ExpectedFixedFrom(doc, n + 1)

\* C11: validation reports exactly one issue, and inserts exactly one guard
\* line followed by one blank line, per keyed table that has an assignment
\* line and no declaration, however many assignment lines the table has; the
\* issues and the guards come in the order of the tables' first assignments.
C11_IssueAccounting ==
    Validated =>
        /\ issues = ExpectedIssues(user_config)
        /\ result = ExpectedFixedFrom(user_config, 1)

-----------------------------------------------------------------------------
(* Properties of the two command lines                                     *)

LastBackup == backups[Len(backups)]

\* the content the target had when the run started is still on the file
\* system: in the target, or in the backup the run wrote
OriginalHeld ==
    user_config # <<>> =>
        \/ fs[argv[1]] = user_config
        \/ backups # <<>> /\ LastBackup = user_config

\* C12: whenever a run of either tool overwrites the target, the document
\* has been read and a backup holding the content the target had before the
\* run has been written; so after every step the original content is held
\* by the target or by the backup.
C12_BackupPrecedesOverwrite ==
    [][ /\ fs' # fs =>
            /\ user_config # <<>>
            /\ user_config = fs[argv[1]]
            /\ backups # <<>>
            /\ LastBackup = fs[argv[1]]
            /\ \A p \in DOMAIN fs : p # argv[1] => fs'[p] = fs[p]
        /\ OriginalHeld' ]_vars

\* a first run has replaced the target by a different document
C12_Witness ==
    /\ pc = "done"
    /\ exitCode = 0
    /\ run = 1
    /\ backups # <<>>
    /\ backups[1] = user_config
    /\ fs[argv[1]] # user_config

\* the step with which a validator run that got as far as validating ends
ValidatorEnds ==
    tool = "validate" /\ user_config # <<>> /\ pc # "done" /\ pc' = "done"

\* C13: a validator run that finds no issue exits 0 and writes no file; one
\* that finds an issue without --fix exits 1 and writes neither the target
\* nor a backup; one that finds an issue with --fix writes the backup, then
\* the corrected document, and exits 0.
C13_ValidatorOutcome ==
    [][ /\ (tool = "validate" /\ backups' # backups) =>
               /\ issues # <<>> /\ should_fix
               /\ backups' # <<>>
               /\ backups'[Len(backups')] = fs[argv[1]]
               /\ fs' = fs
        /\ (tool = "validate" /\ fs' # fs) =>
               /\ issues # <<>> /\ should_fix
               /\ backups # <<>> /\ LastBackup = fs[argv[1]]
               /\ fs' = [fs EXCEPT ![argv[1]] = result]
        /\ (ValidatorEnds /\ issues = <<>>) =>
               exitCode' = 0 /\ fs' = fs /\ fs[argv[1]] = user_config
        /\ (ValidatorEnds /\ issues # <<>> /\ ~should_fix) =>
               exitCode' = 1 /\ fs' = fs /\ fs[argv[1]] = user_config
        /\ (ValidatorEnds /\ issues # <<>> /\ should_fix) =>
               /\ exitCode' = 0
               /\ fs'[argv[1]] = result /\ result # user_config
               /\ LastBackup = user_config ]_vars

\* a validator run without --fix has reported an issue and exited 1
C13_Witness ==
    /\ tool = "validate"
    /\ pc = "done"
    /\ issues # <<>>
    /\ ~should_fix
    /\ exitCode = 1
    /\ fs[argv[1]] = user_config
    /\ backups = <<>>

\* the argument list is malformed for the tool
BadUsage ==
    \/ tool = "normalize" /\ Len(argv) # 1
    \/ tool = "validate" /\ Len(argv) < 1

\* a run starts that cannot succeed: malformed arguments, no target
\* document, or (merge tool) no template
FailingStart ==
    /\ pc = "start"
    /\ \/ BadUsage
       \/ ~Exists(argv[1])
       \/ tool = "normalize" /\ ~Exists("tpl")

\* C14: when the argument list is malformed, the target does not exist, or
\* (merge tool) the template does not exist, the process exits with code 1
\* and no file is created or modified: no backup is written and the target
\* is unchanged.
C14_FailingRunsDoNotMutate ==
    [][ FailingStart =>
            /\ pc' = "done"
            /\ exitCode' = 1
            /\ fs' = fs
            /\ backups' = backups ]_vars

\* the merge tool has exited 1 on an existing target because the template is
\* missing
C14_Witness ==
    /\ tool = "normalize"
    /\ pc = "done"
    /\ exitCode = 1
    /\ Len(argv) = 1
    /\ Exists(argv[1])
    /\ ~Exists("tpl")
    /\ backups = <<>>

-----------------------------------------------------------------------------
(* Properties of the merger's cursor and of single sections                *)

\* the driver loop is about to run the handler of the CI-commands or of the
\* Modular-builds section
KeyedStep ==
    /\ InLoop
    /\ ~ContainsMappingsGuard(CurrentLine)
    /\ \/ StartsWithHeader(CurrentLine, "CI")
       \/ StartsWithHeader(CurrentLine, "MOD")

\* the cursor stands on a section delimiter, or the template is exhausted
AtDelimOrEnd == i >= Len(lines) \/ StartsWithDelim(At(lines, i))

\* no example comment or example assignment line of the two sections is in
\* the output
NoExampleInOutput ==
    \A n \in 1..Len(result) :
        ~IsExampleOf(result[n], "CI") /\ ~IsExampleOf(result[n], "MOD")

\* C15: merged against the reference template, the handler of the
\* CI-commands section (and of the Modular-builds section) leaves the cursor
\* on a section delimiter or at the end of the template, and no example
\* comment or example assignment line of the section is copied to the
\* output.
C15_ExamplesSuppressed ==
    [][ lines = RefTemplate =>
            /\ KeyedStep => AtDelimOrEnd'
            /\ Merged' => NoExampleInOutput' ]_vars

ScalarNames == {SimpleVars[n] : n \in 1..Len(SimpleVars)}

ScalarAt(doc, name) == {n \in 1..Len(doc) : doc[n].kind = "scalar" /\ doc[n].name = name}

\* the value of the first line NAME=... of the document
FirstValue(doc, name) == doc[Min(ScalarAt(doc, name))].value

\* the template's scalar line with the user's value, if the user has one
ExpectedScalar(doc, l) ==
    IF l.name \in ScalarNames /\ ScalarAt(doc, l.name) # {}
    THEN Scalar(l.name, FirstValue(doc, l.name))
    ELSE l

ScalarLines(doc) == SelectSeq(doc, LAMBDA l : l.kind = "scalar")

\* C16: extraction keeps, for each known scalar name, the value of the first
\* line NAME=... of the user document; merge emits every scalar line of the
\* template, with that value when the user document has the name and
\* verbatim when it has not.
C16_ScalarSettings ==
    /\ Extracted =>
           \A name \in ScalarNames :
               /\ ScalarAt(user_config, name) # {} =>
                      Count(user_values.simple,
                            <<name, FirstValue(user_config, name)>>) = 1
               /\ \A n \in 1..Len(user_values.simple) :
                      user_values.simple[n][1] = name =>
                          /\ ScalarAt(user_config, name) # {}
                          /\ user_values.simple[n][2] = FirstValue(user_config, name)
    /\ Merged =>
           ScalarLines(result) =
               [n \in 1..Len(ScalarLines(lines)) |->
                   ExpectedScalar(user_config, ScalarLines(lines)[n])]

\* a loop of the program is running: the merger's driver loop or one of the
\* validator's two passes
InSomeLoop == pc \in {"loop", "declarations", "spacing"}

\* C17: in the merger's driver loop and in both validator passes the cursor
\* never moves backwards and every iteration advances it by at least one
\* line without passing the end of the document, for every template (also
\* one without delimiters or examples, or one that ends inside a section);
\* and every invocation terminates.
C17_ForwardCursorTerminates ==
    /\ [][ (InSomeLoop /\ pc' = pc) =>
               /\ i' > i
               /\ i' <= Len(lines)
               /\ lines' = lines ]_vars
    /\ <>(pc = "done")

\* a merge against the template that has no delimiter and ends inside a
\* section has run to its end
C17_Witness ==
    /\ Merged
    /\ lines = OwnEntryTemplate
    /\ i = Len(lines)
    /\ user_values.repo_modules # <<>>

-----------------------------------------------------------------------------
(* Properties of colliding alias entries                                   *)

\* the positions of two alias entries of the document, the first before the
\* second
AliasPairs(doc) ==
    {pq \in AssignAt(doc, "REPO_MAPPINGS") \X AssignAt(doc, "REPO_MAPPINGS") :
        pq[1] < pq[2]}

\* the reverse map holds what the alias entry at position p of the document
\* put into it
HoldsEntry(full_to_short, doc, p) ==
    /\ doc[p].value \in DOMAIN full_to_short
    /\ full_to_short[doc[p].value] = doc[p].key

\* C18 as stated: when two alias entries map different canonical names to
\* the same shorthand, the later entry overrides the earlier one in the
\* canonical-name -> shorthand reverse map.
C18_SameShorthandOverrides ==
    Extracted =>
        \A pq \in AliasPairs(user_config) :
            (/\ user_config[pq[1]].key = user_config[pq[2]].key
             /\ user_config[pq[1]].value # user_config[pq[2]].value) =>
                /\ HoldsEntry(FullToShort(user_values.mappings), user_config, pq[2])
                /\ ~HoldsEntry(FullToShort(user_values.mappings), user_config, pq[1])

\* the last alias entry of the document that names the canonical name
LastAlias(doc, full_name) ==
    Max({r \in AssignAt(doc, "REPO_MAPPINGS") : doc[r].value = full_name})

\* the extracted entries of a keyed table
EntriesOf(uv, t) ==
    CASE t = "REPO_IDE_CONFIGS" -> uv.ide_configs
      [] t = "REPO_CONFIGS"     -> uv.repo_configs
      [] t = "REPO_MODULES"     -> uv.repo_modules

\* C18: when two alias entries map the same canonical name to different
\* shorthands, the later entry overrides the earlier one in the reverse map:
\* the map sends every canonical name to the shorthand of the last alias
\* entry that names it, and an entry keyed by the canonical name gets that
\* shorthand.  Alias entries that map different canonical names to one
\* shorthand do not override each other.  The run goes on to exit 0.
C18_SameCanonicalLastWins ==
    /\ Extracted =>
           /\ \A p \in AssignAt(user_config, "REPO_MAPPINGS") :
                  HoldsEntry(FullToShort(user_values.mappings), user_config,
                             LastAlias(user_config, user_config[p].value))
           /\ \A pq \in AliasPairs(user_config) :
                  (/\ user_config[pq[1]].value = user_config[pq[2]].value
                   /\ user_config[pq[1]].key # user_config[pq[2]].key
                   /\ pq[2] = LastAlias(user_config, user_config[pq[2]].value)) =>
                      ~HoldsEntry(FullToShort(user_values.mappings), user_config, pq[1])
           /\ \A t \in KeyedTables :
                  \A n \in 1..Len(AssignLines(user_config, t)) :
                      AssignLines(user_config, t)[n].key \in CanonicalNames(user_config) =>
                          EntriesOf(user_values, t)[n][1] =
                              user_config[LastAlias(user_config,
                                              AssignLines(user_config, t)[n].key)].key
    /\ (tool = "normalize" /\ pc = "done" /\ user_config # <<>>) => exitCode = 0

\* a merge of a document in which two shorthands share a canonical name that
\* keys an entry has exited
C18_Witness ==
    /\ Merged
    /\ \E pq \in AliasPairs(user_config) :
           /\ user_config[pq[1]].value = user_config[pq[2]].value
           /\ user_config[pq[1]].key # user_config[pq[2]].key
           /\ \E n \in AssignAt(user_config, "REPO_CONFIGS") :
                  /\ user_config[n].key = user_config[pq[2]].value
                  /\ AssignLines(result, "REPO_CONFIGS")[1].key = user_config[pq[2]].key

-----------------------------------------------------------------------------
(* Properties of the section-spacing pass                                  *)

\* an alias-table assignment of the document is directly followed by a
\* section-header comment
MappingBeforeHeader(doc) ==
    \E n \in 1..(Len(doc) - 1) :
        /\ doc[n].kind = "assign" /\ doc[n].name = "REPO_MAPPINGS"
        /\ doc[n + 1].kind = "delim"

\* C19: the section-spacing pass adds nothing to the issue list and returns
\* the document it was given with flag false, also when an alias-table
\* assignment is directly followed by a section-header comment; so
\* had_issues is true exactly when the missing-declaration pass inserted a
\* guard.
C19_SpacingIsNoOp ==
    [][ /\ (tool = "validate" /\ pc = "spacing") =>
               /\ issues' = issues
               /\ fixes' = fixes
               /\ fixed' = FALSE
               /\ pc' = "report" =>
                      /\ result = lines
                      /\ had_issues' = had_issues
        /\ Validated' =>
               /\ result' = lines'
               /\ had_issues' <=> (\E n \in 1..Len(result') :
                                      /\ result'[n].kind = "guard"
                                      /\ Count(result', result'[n]) >
                                             Count(user_config', result'[n])) ]_vars

\* a document with an alias-table assignment directly followed by a
\* section-header comment has been validated without an issue
C19_Witness ==
    /\ Validated
    /\ MappingBeforeHeader(user_config)
    /\ ~had_issues
    /\ result = user_config

-----------------------------------------------------------------------------
(* Properties of declaration guards under merge                            *)

\* the guard lines of a keyed table the template has outside the blocks the
\* merger suppresses
TemplateGuards(tpl, t) ==
    {n \in 1..Len(tpl) : tpl[n] = Guard(t) /\ ~Suppressed(tpl, n)}

\* C20: merge's output has a declaration guard of a keyed table only where
\* the template has one outside a suppressed block; so, merged against the
\* reference template, which has none, a table the user document has an
\* entry of has its assignment lines in the output and no guard, whether or
\* not the user document declares it.
C20_GuardsNotCarriedOver ==
    /\ Merged =>
           \A t \in KeyedTables :
               Cardinality(GuardAt(result, t)) <= Cardinality(TemplateGuards(lines, t))
    /\ MergedRef =>
           \A t \in KeyedTables :
               AssignAt(user_config, t) # {} =>
                   /\ AssignAt(result, t) # {}
                   /\ GuardAt(result, t) = {}

\* a user document that declares a keyed table and has an entry of it has
\* been merged against the reference template
C20_Witness ==
    /\ MergedRef
    /\ GuardAt(user_config, "REPO_CONFIGS") # {}
    /\ AssignAt(user_config, "REPO_CONFIGS") # {}
    /\ AssignAt(result, "REPO_CONFIGS") # {}

====
